---- MODULE Spec2Model ----
(***************************************************************************)
(* The management command send_program_course_nudge_email                  *)
(* (lms/djangoapps/program_enrollments/management/commands).               *)
(*                                                                         *)
(* Three specifications share this module:                                 *)
(*   SpecSort     sort_programs applied to bounded lists of programs       *)
(*   SpecSuggest  get_course_run_to_suggest applied to bounded progress    *)
(*                lists                                                    *)
(*   Spec         handle: the whole command, one action per loop           *)
(*                iteration, invoked a first and a second time             *)
(***************************************************************************)
EXTENDS Naturals, Sequences, FiniteSets, TLC

VARIABLES
    mode,                   \* which specification is running
    \* ---- sort_programs harness
    sort_in,                \* the list handed to sort_programs
    sort_out,               \* what it returned
    \* ---- get_course_run_to_suggest harness
    programs_progress,      \* ProgramProgressMeter output handed to the selection
    completed_id,           \* completed_course_id handed to the selection
    suggest_out,            \* the tuple it returned
    \* ---- handle
    grades,                 \* rows of PersistentCourseGrade (the grade store)
    no_commit,              \* options['no_commit']
    pc,                     \* position of handle
    course_to_users_maps,   \* dict, as its items() in insertion order
    ci,                     \* index of the completed course being processed
    ui,                     \* index of the next user of that course
    course_linked_programs, \* sorted programs of the current course
    email_sent_records,     \* the in-memory audit list
    sink,                   \* every segment.track call ever made
    failure,                \* the exception that ended the invocation
    invocation,             \* 1: first run of the command, 2: run again
    first_events            \* the calls the first invocation made

vars == <<mode, sort_in, sort_out, programs_progress, completed_id, suggest_out,
          grades, no_commit, pc, course_to_users_maps, ci, ui,
          course_linked_programs, email_sent_records, sink, failure,
          invocation, first_events>>

\* ------------------------------------------------------------------ bounds

\* longest list handed to sort_programs
MaxSortLen == 3
\* size of a progress list handed to get_course_run_to_suggest, counted in
\* programs + courses + course-runs
MaxTokens == 6
\* rows in the grade store
MaxGrades == 2

\* ------------------------------------------------------------ Python values

\* Python's None
None == "None"

COURSE_PUBLISHED == "published"

\* the element of a one-element set; {F(x) : x \in {e}} holds F(e) with e
\* worked out once, however often F uses it
The(S) == CHOOSE x \in S : TRUE

\* A str that the code hands to urljoin, or puts together for it, is a text:
\* the sequence of its characters.  A character is a string of length one; a
\* character that no string here can hold stands as its Python escape, U+000B
\* as "\\x0b" and U+2100 as "\\u2100".  Text is the text of a string that
\* holds no such character, TextOf the string of a text.
Text(str) == [i \in 1..Len(str) |-> SubSeq(str, i, i)]

RECURSIVE TextUpto(_, _)
TextUpto(text, n) == IF n = 0 THEN "" ELSE TextUpto(text, n - 1) \o text[n]

TextOf(text) == TextUpto(text, Len(text))

\* None where a str is expected
NoneText == <<None>>

\* what an operator gives in place of a str when the code raises ValueError
ValueError == <<"raise ValueError">>

\* truth value of a str-or-None
Truthy(text) == text # NoneText /\ text # <<>>

\* A dict is the set of its <<key, value>> items; None and {} are both falsy
\* and both the empty set.
DictGet(d, k) == IF \E kv \in d : kv[1] = k
                 THEN (CHOOSE kv \in d : kv[1] = k)[2]
                 ELSE None

Front(s) == SubSeq(s, 1, Len(s) - 1)

Last(s) == s[Len(s)]

CourseRun(key, enrollable, marketable, url, image, status) ==
    [key |-> key, title |-> "Run " \o key, short_description |-> "About " \o key,
     is_enrollable |-> enrollable, is_marketable |-> marketable,
     marketing_url |-> url, image |-> image, status |-> status]

Course(key, runs) == [key |-> key, course_runs |-> runs]

Program(uuid, type, title, courses) ==
    [uuid |-> uuid, type |-> type, title |-> title, courses |-> courses]

\* ------------------------------------------------------------ valid_course_run

valid_course_run_no_status(course_run) ==
    /\ course_run.is_enrollable
    /\ course_run.is_marketable
    /\ Truthy(course_run.marketing_url)
    /\ course_run.image # {}

valid_course_run(course_run) ==
    /\ course_run.is_enrollable
    /\ course_run.is_marketable
    /\ Truthy(course_run.marketing_url)
    /\ course_run.image # {}
    /\ course_run.status = COURSE_PUBLISHED

\* --------------------------------------------------- get_course_run_to_suggest

\* the innermost loop from its i-th course-run on: the returned tuple, or <<>>
\* when the loop ends without returning
RECURSIVE scan_course_runs(_, _, _, _)
scan_course_runs(program, not_started_course, i, completed_course_id) ==
    IF i > Len(not_started_course.course_runs) THEN <<>>
    ELSE LET course_run == not_started_course.course_runs[i] IN
         IF valid_course_run(course_run) /\ course_run.key # completed_course_id
         THEN <<program, course_run, not_started_course>>
         ELSE scan_course_runs(program, not_started_course, i + 1, completed_course_id)

RECURSIVE scan_not_started(_, _, _)
scan_not_started(program, j, completed_course_id) ==
    IF j > Len(program.not_started) THEN <<>>
    ELSE LET r == scan_course_runs(program, program.not_started[j], 1, completed_course_id) IN
         IF Len(r) > 0 THEN r
         ELSE scan_not_started(program, j + 1, completed_course_id)

RECURSIVE scan_programs(_, _, _)
scan_programs(progress, k, completed_course_id) ==
    IF k > Len(progress) THEN <<>>
    ELSE LET r == scan_not_started(progress[k], 1, completed_course_id) IN
         IF Len(r) > 0 THEN r
         ELSE scan_programs(progress, k + 1, completed_course_id)

\* the programs walked from the last to the first
get_course_run_to_suggest_reversed(progress, completed_course_id) ==
    LET r == scan_programs([i \in 1..Len(progress) |-> progress[Len(progress) + 1 - i]],
                           1, completed_course_id) IN
    IF Len(r) > 0 THEN r ELSE <<None, None>>

\* line 92 returns a tuple of TWO Nones
get_course_run_to_suggest(progress, completed_course_id) ==
    LET r == scan_programs(progress, 1, completed_course_id) IN
    IF Len(r) > 0 THEN r ELSE <<None, None>>

\* ------------------------------------------------------------- sort_programs

KnownTypes == {"MicroMasters", "Professional Program", "Professional Certificate",
               "XSeries", "Masters", "MicroBachelors"}

\* the table with two neighbours swapped
sort_revenue_order_swapped(type) ==
    CASE type = "MicroMasters" -> 1
      [] type = "Professional Program" -> 2
      [] type = "Professional Certificate" -> 3
      [] type = "XSeries" -> 5
      [] type = "Masters" -> 4
      [] type = "MicroBachelors" -> 6
      [] OTHER -> 7

\* sort_revenue_order.get(program['type'], 7)
sort_revenue_order(type) ==
    CASE type = "MicroMasters" -> 1
      [] type = "Professional Program" -> 2
      [] type = "Professional Certificate" -> 3
      [] type = "XSeries" -> 4
      [] type = "Masters" -> 5
      [] type = "MicroBachelors" -> 6
      [] OTHER -> 7

\* sorted(..., key=itemgetter('sort_revenue_order')): a stable sort.  Each
\* element goes behind every element already placed whose key is not larger.
RECURSIVE sorted_by_revenue(_)
sorted_by_revenue(programs) ==
    IF programs = <<>> THEN <<>>
    ELSE LET done == sorted_by_revenue(Front(programs))
             x == Last(programs)
             n == Cardinality({i \in 1..Len(done) :
                                 done[i].sort_revenue_order <= x.sort_revenue_order})
         IN SubSeq(done, 1, n) \o <<x>> \o SubSeq(done, n + 1, Len(done))

\* lines 106-107: every dict of the list handed in gets the key
\* 'sort_revenue_order'; the caller's list holds these same dicts
with_revenue_order(programs) ==
    [i \in 1..Len(programs) |->
        [uuid |-> programs[i].uuid, type |-> programs[i].type,
         title |-> programs[i].title, courses |-> programs[i].courses,
         sort_revenue_order |-> sort_revenue_order(programs[i].type)]]

\* the list sort_programs returns
sort_programs(programs) == sorted_by_revenue(with_revenue_order(programs))

\* ------------------------------------------------------------------ urljoin

uses_relative ==
    {"", "ftp", "http", "gopher", "nntp", "imap", "wais", "file", "https", "shttp",
     "mms", "prospero", "rtsp", "rtsps", "rtspu", "sftp", "svn", "svn+ssh", "ws", "wss"}

uses_netloc ==
    {"", "ftp", "http", "gopher", "nntp", "telnet", "imap", "wais", "file", "mms",
     "https", "shttp", "snews", "prospero", "rtsp", "rtsps", "rtspu", "rsync", "svn",
     "svn+ssh", "sftp", "nfs", "git", "git+ssh", "ws", "wss"}

uses_params ==
    {"", "ftp", "hdl", "prospero", "http", "imap", "https", "shttp", "rtsp", "rtsps",
     "rtspu", "sip", "sips", "mms", "sftp", "tel"}

ascii_uppercase ==
    <<"A", "B", "C", "D", "E", "F", "G", "H", "I", "J", "K", "L", "M",
      "N", "O", "P", "Q", "R", "S", "T", "U", "V", "W", "X", "Y", "Z">>

ascii_lowercase ==
    <<"a", "b", "c", "d", "e", "f", "g", "h", "i", "j", "k", "l", "m",
      "n", "o", "p", "q", "r", "s", "t", "u", "v", "w", "x", "y", "z">>

ascii_letters ==
    {ascii_uppercase[i] : i \in 1..Len(ascii_uppercase)}
        \cup {ascii_lowercase[i] : i \in 1..Len(ascii_lowercase)}

digits == {"0", "1", "2", "3", "4", "5", "6", "7", "8", "9"}

scheme_chars == ascii_letters \cup digits \cup {"+", "-", "."}

\* _WHATWG_C0_CONTROL_OR_SPACE: the 32 control characters U+0000 to U+001F and
\* the space
C0_CONTROL_OR_SPACE ==
    {"\\x00", "\\x01", "\\x02", "\\x03", "\\x04", "\\x05", "\\x06", "\\x07",
     "\\x08", "\t", "\n", "\\x0b", "\f", "\r", "\\x0e", "\\x0f",
     "\\x10", "\\x11", "\\x12", "\\x13", "\\x14", "\\x15", "\\x16", "\\x17",
     "\\x18", "\\x19", "\\x1a", "\\x1b", "\\x1c", "\\x1d", "\\x1e", "\\x1f",
     " "}

UNSAFE_URL_BYTES_TO_REMOVE == {"\t", "\r", "\n"}

\* the characters whose NFKC form (Unicode 14, Python 3.11) holds one of
\* "/", "?", "#", "@", ":"
NFKC_TO_DELIMITER ==
    {"\\u2047", "\\u2048", "\\u2049", "\\u2100", "\\u2101", "\\u2105", "\\u2106",
     "\\u2a74", "\\ufe13", "\\ufe16", "\\ufe55", "\\ufe56", "\\ufe5f", "\\ufe6b",
     "\\uff03", "\\uff0f", "\\uff1a", "\\uff1f", "\\uff20"}

\* str.lower of a text of scheme characters
lower(text) ==
    [i \in 1..Len(text) |->
        IF \E k \in 1..Len(ascii_uppercase) : ascii_uppercase[k] = text[i]
        THEN ascii_lowercase[CHOOSE k \in 1..Len(ascii_uppercase) : ascii_uppercase[k] = text[i]]
        ELSE text[i]]

\* str.find for a set of characters: the first position from start on that
\* holds one of them, 0 when none does
find(text, chars, start) ==
    LET hits == {i \in start..Len(text) : text[i] \in chars}
    IN IF hits = {} THEN 0 ELSE CHOOSE i \in hits : \A j \in hits : i <= j

\* str.rfind: the last position that holds the character, 0 when none does
rfind(text, char) ==
    LET hits == {i \in 1..Len(text) : text[i] = char}
    IN IF hits = {} THEN 0 ELSE CHOOSE i \in hits : \A j \in hits : j <= i

\* text[i:] and text[:i], positions counted from 1
From(text, i) == SubSeq(text, i, Len(text))

Upto(text, i) == SubSeq(text, 1, i)

\* str.lstrip(_WHATWG_C0_CONTROL_OR_SPACE)
lstrip(text) ==
    LET kept == {i \in 1..Len(text) : text[i] \notin C0_CONTROL_OR_SPACE}
    IN IF kept = {} THEN <<>>
       ELSE From(text, CHOOSE i \in kept : \A j \in kept : i <= j)

\* str.strip(_WHATWG_C0_CONTROL_OR_SPACE)
strip(text) ==
    LET kept == {i \in 1..Len(text) : text[i] \notin C0_CONTROL_OR_SPACE}
    IN IF kept = {} THEN <<>>
       ELSE SubSeq(text, CHOOSE i \in kept : \A j \in kept : i <= j,
                         CHOOSE i \in kept : \A j \in kept : j <= i)

\* str.split(sep), each part a text: the k-th part stands between the
\* (k-1)-th and the k-th separator
split(text, sep) ==
    LET seps == {i \in 1..Len(text) : text[i] = sep}
        nth(k) == CHOOSE i \in seps : Cardinality({j \in seps : j <= i}) = k
    IN [k \in 1..(Cardinality(seps) + 1) |->
          SubSeq(text,
                 IF k = 1 THEN 1 ELSE nth(k - 1) + 1,
                 IF k = Cardinality(seps) + 1 THEN Len(text) ELSE nth(k) - 1)]

\* '/'.join(parts), parts and result texts
RECURSIVE JoinUpto(_, _)
JoinUpto(parts, n) ==
    IF n = 0 THEN <<>>
    ELSE JoinUpto(parts, n - 1) \o (IF n > 1 THEN <<"/">> ELSE <<>>) \o parts[n]

join(parts) == JoinUpto(parts, Len(parts))

hexdigits == digits \cup {"a", "b", "c", "d", "e", "f", "A", "B", "C", "D", "E", "F"}

\* int(text, 10) of a text of decimal digits
RECURSIVE IntUpto(_, _)
IntUpto(text, n) ==
    IF n = 0 THEN 0
    ELSE 10 * IntUpto(text, n - 1) + (CHOOSE d \in 0..9 : ToString(d) = text[n])

int(text) == IntUpto(text, Len(text))

\* ipaddress._BaseV4._parse_octet does not raise
parse_octet(octet_str) ==
    /\ octet_str # <<>>
    /\ \A i \in 1..Len(octet_str) : octet_str[i] \in digits
    /\ Len(octet_str) <= 3
    /\ octet_str = <<"0">> \/ octet_str[1] # "0"
    /\ int(octet_str) <= 255

\* ipaddress.IPv4Address(ip_str) does not raise
IPv4Address(ip_str) ==
    /\ ip_str # <<>>
    /\ LET octets == split(ip_str, ".")
       IN Len(octets) = 4 /\ \A i \in 1..Len(octets) : parse_octet(octets[i])

\* ipaddress._BaseV6._parse_hextet does not raise
parse_hextet(hextet_str) ==
    /\ hextet_str # <<>>
    /\ \A i \in 1..Len(hextet_str) : hextet_str[i] \in hexdigits
    /\ Len(hextet_str) <= 4

\* ipaddress.IPv6Address(ip_str) does not raise: a scope id after "%" is not
\* empty and holds no "%"; the address has three to nine parts between its
\* colons, an IPv4 suffix counting for two; at most one inner part is empty
\* (the "::"), an empty first or last part has to sit next to it, and it has
\* to stand for one part at least; without it there are eight parts; every
\* other part is a hextet
IPv6Address(ip_str) ==
    LET percent == find(ip_str, {"%"}, 1)
        addr_str == IF percent = 0 THEN ip_str ELSE Upto(ip_str, percent - 1)
        split_parts == split(addr_str, ":")
        ipv4_suffix == \E i \in 1..Len(Last(split_parts)) : Last(split_parts)[i] = "."
        parts == IF ipv4_suffix THEN Front(split_parts) \o <<<<"0">>, <<"0">>>> ELSE split_parts
        skips == {i \in 2..(Len(parts) - 1) : parts[i] = <<>>}
        skip_index == CHOOSE i \in skips : TRUE
        parts_hi == IF parts[1] = <<>> THEN skip_index - 2 ELSE skip_index - 1
        parts_lo == IF Last(parts) = <<>> THEN Len(parts) - skip_index - 1
                    ELSE Len(parts) - skip_index
    IN /\ percent = 0 \/ (percent < Len(ip_str) /\ find(ip_str, {"%"}, percent + 1) = 0)
       /\ addr_str # <<>>
       /\ Len(split_parts) >= 3
       /\ ipv4_suffix => IPv4Address(Last(split_parts))
       /\ Len(parts) <= 9
       /\ Cardinality(skips) <= 1
       /\ IF skips # {}
          THEN /\ parts[1] = <<>> => parts_hi = 0
               /\ Last(parts) = <<>> => parts_lo = 0
               /\ parts_hi + parts_lo < 8
               /\ \A i \in 1..Len(parts) :
                     (i <= parts_hi \/ i > Len(parts) - parts_lo) => parse_hextet(parts[i])
          ELSE /\ Len(parts) = 8
               /\ \A i \in 1..Len(parts) : parse_hextet(parts[i])

\* urllib.parse._check_bracketed_host does not raise: the host is an
\* IPvFuture literal ("v", hex digits, ".", anything) or an IPv6 address
check_bracketed_host(hostname) ==
    IF hostname # <<>> /\ hostname[1] = "v"
    THEN \E k \in 2..Len(hostname) :
            /\ \A j \in 2..k : hostname[j] \in hexdigits
            /\ k + 2 <= Len(hostname)
            /\ hostname[k + 1] = "."
    ELSE ~IPv4Address(hostname) /\ IPv6Address(hostname)

\* urllib.parse._checknetloc raises ValueError: the netloc holds a character
\* that NFKC normalisation turns into a delimiter
checknetloc_raises(netloc) ==
    \E i \in 1..Len(netloc) : netloc[i] \in NFKC_TO_DELIMITER

\* the checks urlsplit makes of a netloc raise ValueError: one bracket
\* without the other, a bracketed host that is no address literal, or
\* _checknetloc
netloc_raises(netloc) ==
    LET open == find(netloc, {"["}, 1)
        close == find(netloc, {"]"}, 1)
        after_open == From(netloc, open + 1)
        end == find(after_open, {"]"}, 1)
        bracketed_host == IF end = 0 THEN after_open ELSE Upto(after_open, end - 1)
    IN \/ (open = 0) # (close = 0)
       \/ open # 0 /\ close # 0 /\ ~check_bracketed_host(bracketed_host)
       \/ checknetloc_raises(netloc)

\* urlsplit from the netloc on: the fragment follows the first "#", the
\* query the first "?" before it, the path is what stands before them
split_path(scheme, netloc, url) ==
    LET hash == find(url, {"#"}, 1)
        mark == find(url, {"?"}, 1)
        end == IF hash # 0 /\ (mark = 0 \/ hash < mark) THEN hash
               ELSE IF mark # 0 THEN mark
               ELSE Len(url) + 1
    IN [scheme |-> scheme,
        netloc |-> netloc,
        path |-> Upto(url, end - 1),
        query |-> IF end # mark THEN <<>>
                  ELSE IF hash = 0 THEN From(url, mark + 1)
                  ELSE SubSeq(url, mark + 1, hash - 1),
        fragment |-> IF hash = 0 THEN <<>> ELSE From(url, hash + 1),
        raises |-> netloc_raises(netloc)]

\* urlsplit from the scheme on: "//" opens a netloc that ends before the
\* first "/", "?" or "#"
split_netloc(scheme, url) ==
    LET has_netloc == Len(url) >= 2 /\ url[1] = "/" /\ url[2] = "/"
        delim == find(url, {"/", "?", "#"}, 3)
    IN The({split_path(scheme, netloc, rest) :
               netloc \in {IF ~has_netloc THEN <<>>
                           ELSE IF delim = 0 THEN From(url, 3)
                           ELSE SubSeq(url, 3, delim - 1)},
               rest \in {IF ~has_netloc THEN url
                         ELSE IF delim = 0 THEN <<>>
                         ELSE From(url, delim)}})

\* urlsplit of the stripped text: the text before the first ":" is the scheme
\* when it starts with a letter and holds scheme characters only
split_scheme(url, default_scheme) ==
    LET i == find(url, {":"}, 1)
        has_scheme == /\ i > 1
                      /\ url[1] \in ascii_letters
                      /\ \A k \in 1..(i - 1) : url[k] \in scheme_chars
    IN The({split_netloc(scheme, rest) :
               scheme \in {IF has_scheme THEN lower(Upto(url, i - 1)) ELSE default_scheme},
               rest \in {IF has_scheme THEN From(url, i + 1) ELSE url}})

\* urllib.parse.urlsplit(url, scheme): the url is stripped of leading C0
\* controls and spaces, the scheme of leading and trailing ones, and tab, CR
\* and LF are removed from both before the url is split
urlsplit(text, default_scheme) ==
    The({split_scheme(url, scheme) :
            url \in {SelectSeq(lstrip(t), LAMBDA c : c \notin UNSAFE_URL_BYTES_TO_REMOVE) :
                        t \in {text}},
            scheme \in {SelectSeq(strip(d), LAMBDA c : c \notin UNSAFE_URL_BYTES_TO_REMOVE) :
                           d \in {default_scheme}}})

\* urllib.parse._splitparams: the params follow the first ";" of the last
\* path segment
splitparams(path) ==
    LET slash == rfind(path, "/")
        i == find(path, {";"}, IF slash = 0 THEN 1 ELSE slash)
    IN IF i = 0 THEN <<path, <<>>>> ELSE <<Upto(path, i - 1), From(path, i + 1)>>

\* urllib.parse.urlparse(url, scheme): the six components, each a text, and
\* whether ValueError is raised instead
urlparse(text, default_scheme) ==
    The({The({[scheme |-> parts.scheme, netloc |-> parts.netloc,
               path |-> path_params[1], params |-> path_params[2],
               query |-> parts.query, fragment |-> parts.fragment,
               raises |-> parts.raises] :
                 path_params \in {IF TextOf(parts.scheme) \in uses_params
                                  THEN splitparams(parts.path)
                                  ELSE <<parts.path, <<>>>>}}) :
            parts \in {urlsplit(text, default_scheme)}})

\* urllib.parse.urlunparse
urlunparse(scheme, netloc, path, params, query, fragment) ==
    LET url == IF params # <<>> THEN path \o <<";">> \o params ELSE path
        two_slashes == Len(url) >= 2 /\ url[1] = "/" /\ url[2] = "/"
        behind_netloc ==
            IF netloc # <<>>
                 \/ (scheme # <<>> /\ TextOf(scheme) \in uses_netloc /\ ~two_slashes)
            THEN <<"/", "/">> \o netloc
                    \o (IF url # <<>> /\ url[1] # "/" THEN <<"/">> ELSE <<>>) \o url
            ELSE url
    IN (IF scheme # <<>> THEN scheme \o <<":">> ELSE <<>>)
          \o behind_netloc
          \o (IF query # <<>> THEN <<"?">> \o query ELSE <<>>)
          \o (IF fragment # <<>> THEN <<"#">> \o fragment ELSE <<>>)

\* segments[1:-1] = filter(None, segments[1:-1])
DropEmptyInside(segments) ==
    IF Len(segments) < 3 THEN segments
    ELSE <<segments[1]>>
            \o SelectSeq(SubSeq(segments, 2, Len(segments) - 1), LAMBDA x : x # <<>>)
            \o <<segments[Len(segments)]>>

\* the loop over segments: ".." pops what is there (nothing, when nothing
\* is), "." is skipped, anything else is appended
RECURSIVE ResolveDots(_, _)
ResolveDots(segments, n) ==
    IF n = 0 THEN <<>>
    ELSE LET resolved_path == ResolveDots(segments, n - 1)
             seg == segments[n]
         IN IF seg = <<".", ".">>
            THEN (IF resolved_path = <<>> THEN <<>> ELSE Front(resolved_path))
            ELSE IF seg = <<".">> THEN resolved_path
            ELSE Append(resolved_path, seg)

\* the path urljoin resolves: the base path loses its last part unless that
\* is empty, a reference path that starts with "/" replaces it and any other
\* is appended to it, the dot segments are resolved, and a last segment that
\* was one leaves a trailing "/"
ResolvedPath(bpath, path) ==
    LET base_parts == IF Last(split(bpath, "/")) # <<>>
                      THEN Front(split(bpath, "/")) ELSE split(bpath, "/")
    IN The({IF Last(segments) \in {<<".">>, <<".", ".">>}
            THEN Append(ResolveDots(segments, Len(segments)), <<>>)
            ELSE ResolveDots(segments, Len(segments)) :
               segments \in {IF path # <<>> /\ path[1] = "/" THEN split(path, "/")
                             ELSE DropEmptyInside(base_parts \o split(path, "/"))}})

\* urljoin once base and url are parsed: base and url are what urlparse made
\* of them, text is the url as it was given
join_parsed(base, text, url) ==
    LET netloc == IF TextOf(url.scheme) \in uses_netloc THEN base.netloc ELSE url.netloc IN
    IF base.raises \/ url.raises THEN ValueError
    ELSE IF url.scheme # base.scheme \/ TextOf(url.scheme) \notin uses_relative THEN text
    ELSE IF TextOf(url.scheme) \in uses_netloc /\ url.netloc # <<>>
    THEN urlunparse(url.scheme, url.netloc, url.path, url.params, url.query, url.fragment)
    ELSE IF url.path = <<>> /\ url.params = <<>>
    THEN urlunparse(url.scheme, netloc, base.path, base.params,
                    IF url.query = <<>> THEN base.query ELSE url.query, url.fragment)
    ELSE The({urlunparse(url.scheme, netloc,
                         IF resolved_path = <<>> THEN <<"/">> ELSE resolved_path,
                         url.params, url.query, url.fragment) :
                 resolved_path \in
                    {join(parts) : parts \in {ResolvedPath(base.path, url.path)}}})

\* urllib.parse.urljoin(base, url): the str it returns, None when it returns
\* None, or ValueError.  A falsy base gives the url and a falsy url the base;
\* the url is parsed with the scheme of the base as its default.
urljoin(base, url) ==
    IF ~Truthy(base) THEN url
    ELSE IF ~Truthy(url) THEN base
    ELSE The({The({join_parsed(b, t, u) :
                      u \in {IF b.raises THEN b ELSE urlparse(t, b.scheme)}}) :
                 b \in {urlparse(base, <<>>)}, t \in {url}})

\* -------------------------------------------------------------- collaborators

\* settings.ENTERPRISE_LEARNER_PORTAL_BASE_URL
ENTERPRISE_LEARNER_PORTAL_BASE_URL == Text("https://portal.example.com")

\* settings.MKTG_URLS.get('ROOT')
MKTG_ROOT == Text("https://www.example.com")

GoodRun(key, url) ==
    CourseRun(key, TRUE, TRUE, url, {<<"src", "img-" \o key>>}, COURSE_PUBLISHED)

\* the marketing URL most course-runs of the catalog have: a path from the root
PathOf(key) == Text("/course/" \o key)

\* the keys of the five courses of the catalog
KeyCA == <<"C", "A">>

KeyCB == <<"C", "B">>

KeyCC == <<"C", "C">>

KeyCD == <<"C", "D">>

KeyCE == <<"C", "E">>

\* the catalog: three programs over five courses; CC holds one course-run
\* for each way valid_course_run can fail but one, CB the remaining one
CourseCA == Course(KeyCA, <<GoodRun("A1", PathOf("A1"))>>)

CourseCB == Course(KeyCB,
    <<CourseRun("B1", TRUE, FALSE, PathOf("B1"), {<<"src", "img-B1">>}, COURSE_PUBLISHED),
      GoodRun("B2", Text("https://www.example.com/course/B2"))>>)

CourseCC == Course(KeyCC,
    <<CourseRun("C1", FALSE, TRUE, PathOf("C1"), {<<"src", "img-C1">>}, COURSE_PUBLISHED),
      CourseRun("C2", TRUE, TRUE, NoneText, {<<"src", "img-C2">>}, COURSE_PUBLISHED),
      CourseRun("C3", TRUE, TRUE, <<>>, {<<"src", "img-C3">>}, COURSE_PUBLISHED),
      CourseRun("C4", TRUE, TRUE, PathOf("C4"), {}, COURSE_PUBLISHED),
      CourseRun("C5", TRUE, TRUE, PathOf("C5"), {<<"src", "img-C5">>}, "unpublished")>>)

CourseCD == Course(KeyCD, <<GoodRun("D1", PathOf("D1"))>>)

CourseCE == Course(KeyCE, <<GoodRun("E1", Text("course/E1"))>>)

Catalog ==
    <<Program("prog-xs", "XSeries", "XSeries program", <<CourseCA, CourseCB>>),
      Program("prog-mm", "MicroMasters", "MicroMasters program",
              <<CourseCA, CourseCC, CourseCD>>),
      Program("prog-bc", "Bootcamp", "Bootcamp program", <<CourseCB, CourseCE>>)>>

\* the course-runs a passing grade may name; Z9 is in no program
CourseIds == {"A1", "B2", "Z9"}

UserIds == {1, 2, 3, 4}

UserOf(user_id) == [id |-> user_id, username |-> "user-" \o ToString(user_id)]

\* the courses each user is enrolled in or holds a certificate for
Engaged == [u \in UserIds |->
              CASE u = 1 -> {KeyCA}
                [] u = 2 -> {}
                [] u = 3 -> {KeyCA, KeyCC, KeyCD, KeyCE}
                [] OTHER -> {KeyCA}]

Customer(slug, portal) ==
    [enterprise_customer |-> [slug |-> slug, enable_learner_portal |-> portal]]

\* the slugs of the enterprise customers
SlugAcme == <<"a", "c", "m", "e">>

SlugGlobex == <<"g", "l", "o", "b", "e", "x">>

SlugInitech == <<"i", "n", "i", "t", "e", "c", "h">>

SlugUmbrella == <<"u", "m", "b", "r", "e", "l", "l", "a">>

\* get_enterprise_learner_data_from_db(user)
get_enterprise_learner_data_from_db(user) ==
    CASE user.id = 1 -> <<>>
      [] user.id = 2 -> <<Customer(SlugAcme, TRUE)>>
      [] user.id = 3 -> <<Customer(SlugGlobex, FALSE), Customer(SlugInitech, TRUE)>>
      [] OTHER -> <<Customer(SlugUmbrella, FALSE)>>

HasRun(program, course_run_id) ==
    \E i \in 1..Len(program.courses) :
       \E j \in 1..Len(program.courses[i].course_runs) :
          program.courses[i].course_runs[j].key = course_run_id

\* get_programs(course=...): the programs that hold the course-run
get_programs(course) == SelectSeq(Catalog, LAMBDA p : HasRun(p, course))

\* ProgramProgressMeter(...).progress(programs=..., count_only=False): one
\* entry per program, in the programs' order; a course the user is not
\* engaged in is not started
meter_progress(user, programs) ==
    [i \in 1..Len(programs) |->
        [uuid |-> programs[i].uuid,
         not_started |-> SelectSeq(programs[i].courses,
                                   LAMBDA c : c.key \notin Engaged[user.id])]]

\* ------------------------------------------- get_passed_course_to_users_maps

\* timezone.now().date(), as a day number
Today == 2

GradeRow(user_id, course_id, passed_date) ==
    [user_id |-> user_id, course_id |-> course_id, passed_date |-> passed_date]

\* defaultdict(list)[key].append(user), the dict kept as its items in
\* insertion order
DictAppend(d, key, user) ==
    IF \E i \in 1..Len(d) : d[i][1] = key
    THEN [i \in 1..Len(d) |-> IF d[i][1] = key THEN <<key, Append(d[i][2], user)>> ELSE d[i]]
    ELSE Append(d, <<key, <<user>>>>)

RECURSIVE group_grades(_, _)
group_grades(passed_grades, n) ==
    IF n = 0 THEN <<>>
    ELSE DictAppend(group_grades(passed_grades, n - 1),
                    passed_grades[n].course_id, UserOf(passed_grades[n].user_id))

get_passed_course_to_users_maps(rows) ==
    LET yesterday == Today - 1
        passed_grades == SelectSeq(rows, LAMBDA g : g.passed_date = yesterday)
    IN group_grades(passed_grades, Len(passed_grades))

\* ------------------------------------------------ get_course_run, get_program

\* the course-runs of a program in the order the two loops visit them
RECURSIVE runs_in_order(_, _)
runs_in_order(courses, n) ==
    IF n = 0 THEN <<>> ELSE runs_in_order(courses, n - 1) \o courses[n].course_runs

\* the first course-run of the program with this key, or None
get_course_run(program, course_run_id) ==
    LET runs == runs_in_order(program.courses, Len(program.courses))
        hits == {i \in 1..Len(runs) : runs[i].key = course_run_id}
    IN IF hits = {} THEN None
       ELSE runs[CHOOSE i \in hits : \A j \in hits : i <= j]

\* the first program with the uuid of the progress entry, or None
get_program(programs, program_progress) ==
    LET hits == {i \in 1..Len(programs) : programs[i].uuid = program_progress.uuid}
    IN IF hits = {} THEN None
       ELSE programs[CHOOSE i \in hits : \A j \in hits : i <= j]

\* ------------------------------------------------------------------ emit_event

\* line 138: '/'.join([enterprise_customer['slug'], 'course', suggested_course['key']])
portal_path(enterprise_customer, suggested_course) ==
    enterprise_customer.slug \o <<"/", "c", "o", "u", "r", "s", "e", "/">> \o suggested_course.key

\* the portal link for every user with enterprise data, flag or no flag
recommended_course_url_any_enterprise(learner_data, suggested_course_run, suggested_course) ==
    IF learner_data # <<>>
    THEN urljoin(ENTERPRISE_LEARNER_PORTAL_BASE_URL,
                 portal_path(learner_data[1].enterprise_customer, suggested_course))
    ELSE urljoin(MKTG_ROOT, suggested_course_run.marketing_url)

\* lines 133-141: the str bound to recommended_course_url, or ValueError
recommended_course_url(learner_data, suggested_course_run, suggested_course) ==
    IF learner_data # <<>> /\ learner_data[1].enterprise_customer.enable_learner_portal
    THEN urljoin(ENTERPRISE_LEARNER_PORTAL_BASE_URL,
                 portal_path(learner_data[1].enterprise_customer, suggested_course))
    ELSE urljoin(MKTG_ROOT, suggested_course_run.marketing_url)

\* the segment.track call emit_event makes
emit_event(user, program, suggested_course_run, suggested_course, completed_course_run) ==
    [user_id |-> user.id,
     event |-> "edx.bi.program.course-enrollment.nudge",
     properties |->
        [COURSE_ONE_NAME |-> completed_course_run.title,
         PROGRAM_TYPE |-> program.type,
         PROGRAM_TITLE |-> program.title,
         COURSE_TWO_NAME |-> suggested_course_run.title,
         COURSE_TWO_SHORT_DESCRIPTION |-> suggested_course_run.short_description,
         COURSE_TWO_LINK |->
            recommended_course_url(get_enterprise_learner_data_from_db(user),
                                   suggested_course_run, suggested_course),
         COURSE_TWO_IMAGE_LINK |-> DictGet(suggested_course_run.image, "src")]]

\* the f-string appended to email_sent_records, as the three values it holds
SentRecord(user, completed_course_id, suggested_course_run) ==
    [user |-> user.username, completed |-> completed_course_id,
     suggested |-> suggested_course_run.key]

\* ------------------------------------------------ variables a harness leaves alone

HandleIdle ==
    /\ grades = <<>> /\ no_commit = FALSE
    /\ course_to_users_maps = <<>> /\ ci = 0 /\ ui = 0
    /\ course_linked_programs = <<>> /\ email_sent_records = <<>>
    /\ sink = <<>> /\ failure = None /\ invocation = 1 /\ first_events = <<>>

SortIdle == sort_in = <<>> /\ sort_out = <<>>

SuggestIdle == programs_progress = <<>> /\ completed_id = None /\ suggest_out = <<>>

handle_vars == <<grades, no_commit, course_to_users_maps, ci, ui,
                 course_linked_programs, email_sent_records, sink, failure,
                 invocation, first_events>>

\* ------------------------------------------------------ SpecSort: sort_programs

SortTypes == KnownTypes \cup {"Bootcamp"}

\* every list of at most MaxSortLen programs, the i-th with uuid "prog-i"
SortInputs ==
    UNION {{[i \in 1..n |-> Program("prog-" \o ToString(i), t[i], "Program", <<>>)] :
              t \in [1..n -> SortTypes]} : n \in 0..MaxSortLen}

InitSort ==
    /\ mode = "sort" /\ pc = "call"
    /\ sort_in \in SortInputs /\ sort_out = <<>>
    /\ SuggestIdle /\ HandleIdle

CallSortPrograms ==
    /\ mode = "sort" /\ pc = "call"
    /\ sort_out' = sort_programs(sort_in)
    /\ sort_in' = with_revenue_order(sort_in)
    /\ pc' = "returned"
    /\ UNCHANGED <<mode, programs_progress, completed_id, suggest_out>>
    /\ UNCHANGED handle_vars

NextSort == CallSortPrograms

SpecSort == InitSort /\ [][NextSort]_vars

\* ------------------------------------- SpecSuggest: get_course_run_to_suggest

CompletedKey == "course-v1:completed"

\* A progress list is written as a word: "P" opens a program, "C" opens a
\* not-started course of the last program, and a course-run of the last course
\* is "E" (passes every check), "K" (passes valid_course_run, has the completed
\* key) or "D" (fails one check of valid_course_run, the one named by defect).
Tokens == {"P", "C", "E", "K", "D"}

RunTokens == {"E", "K", "D"}

Defects == 0..5

WellFormed(w) ==
    /\ Len(w) > 0 => w[1] = "P"
    /\ \A i \in 2..Len(w) : w[i] \in RunTokens => w[i - 1] # "P"

Words == UNION {{w \in [1..n -> Tokens] : WellFormed(w)} : n \in 0..MaxTokens}

RunOfToken(t, n, defect) ==
    LET key == IF t = "K" THEN CompletedKey ELSE "run-" \o ToString(n)
        bad(d) == t = "D" /\ defect = d
    IN CourseRun(key, ~bad(0), ~bad(1),
                 IF bad(2) THEN NoneText
                 ELSE IF bad(3) THEN <<>>
                 ELSE Text("/course/" \o key),
                 IF bad(4) THEN {} ELSE {<<"src", "img-" \o key>>},
                 IF bad(5) THEN "unpublished" ELSE COURSE_PUBLISHED)

RECURSIVE BuildProgress(_, _, _)
BuildProgress(w, n, defect) ==
    IF n = 0 THEN <<>>
    ELSE LET s == BuildProgress(w, n - 1, defect)
             t == w[n]
             k == Len(s)
         IN IF t = "P"
            THEN Append(s, [uuid |-> "prog-" \o ToString(n), not_started |-> <<>>])
            ELSE IF t = "C"
            THEN [s EXCEPT ![k].not_started =
                      Append(@, Course(<<"c", ToString(n)>>, <<>>))]
            ELSE [s EXCEPT ![k].not_started[Len(s[k].not_started)].course_runs =
                      Append(@, RunOfToken(t, n, defect))]

InitSuggest ==
    /\ mode = "suggest" /\ pc = "call"
    /\ \E w \in Words, d \in Defects : programs_progress = BuildProgress(w, Len(w), d)
    /\ completed_id = CompletedKey
    /\ suggest_out = <<>>
    /\ SortIdle /\ HandleIdle

CallGetCourseRunToSuggest ==
    /\ mode = "suggest" /\ pc = "call"
    /\ suggest_out' = get_course_run_to_suggest(programs_progress, completed_id)
    /\ pc' = "returned"
    /\ UNCHANGED <<mode, sort_in, sort_out, programs_progress, completed_id>>
    /\ UNCHANGED handle_vars

NextSuggest == CallGetCourseRunToSuggest

SpecSuggest == InitSuggest /\ [][NextSuggest]_vars

\* ------------------------------------------------------------- Spec: handle

GradeRows == {GradeRow(u, c, d) : u \in UserIds, c \in CourseIds, d \in {Today - 1, Today}}

\* every grade store of at most MaxGrades rows; lines 48-58 take the rows as
\* the query returns them, two rows of one user and course included
GradeStores == UNION {[1..n -> GradeRows] : n \in 0..MaxGrades}

Init ==
    /\ mode = "handle" /\ pc = "start"
    /\ grades \in GradeStores
    /\ no_commit \in BOOLEAN
    /\ course_to_users_maps = <<>> /\ ci = 0 /\ ui = 0
    /\ course_linked_programs = <<>> /\ email_sent_records = <<>>
    /\ sink = <<>> /\ failure = None /\ invocation = 1 /\ first_events = <<>>
    /\ SortIdle /\ SuggestIdle

harness_vars == <<mode, sort_in, sort_out, programs_progress, completed_id, suggest_out>>

\* the flag read the wrong way round
should_commit_inverted(options_no_commit) == options_no_commit

\* the flag not read at all
should_commit_always(options_no_commit) == TRUE

\* should_commit = not options['no_commit']
should_commit(options_no_commit) == ~options_no_commit

\* the next iteration of "for user in users", or of the outer loop when the
\* users of this course are exhausted
NextUser ==
    IF ui < Len(course_to_users_maps[ci][2])
    THEN ui' = ui + 1 /\ UNCHANGED <<pc, ci>>
    ELSE ui' = 0 /\ ci' = ci + 1 /\ pc' = "course"

\* the exception caught and the loop carried on
Raise_and_continue(exc) ==
    /\ failure' = exc
    /\ IF pc = "user" THEN NextUser
       ELSE ui' = 0 /\ ci' = ci + 1 /\ pc' = "course"
    /\ UNCHANGED <<grades, no_commit, course_to_users_maps, course_linked_programs,
                   email_sent_records, sink, invocation, first_events>>
    /\ UNCHANGED harness_vars

\* handle catches nothing: an exception ends the invocation where it stands
Raise(exc) ==
    /\ failure' = exc
    /\ pc' = "aborted"
    /\ UNCHANGED <<grades, no_commit, course_to_users_maps, ci, ui,
                   course_linked_programs, email_sent_records, sink,
                   invocation, first_events>>
    /\ UNCHANGED harness_vars

\* the rows of users the sink already holds an event for are left out
HandleStart_skip_nudged ==
    /\ mode = "handle" /\ pc = "start"
    /\ email_sent_records' = <<>>
    /\ course_to_users_maps' =
          get_passed_course_to_users_maps(
              SelectSeq(grades, LAMBDA g :
                  \A i \in 1..Len(sink) : sink[i].user_id # g.user_id))
    /\ ci' = 1 /\ ui' = 0 /\ pc' = "course"
    /\ UNCHANGED <<grades, no_commit, course_linked_programs, sink, failure,
                   invocation, first_events>>
    /\ UNCHANGED harness_vars

\* lines 179-183
HandleStart ==
    /\ mode = "handle" /\ pc = "start"
    /\ email_sent_records' = <<>>
    /\ course_to_users_maps' = get_passed_course_to_users_maps(grades)
    /\ ci' = 1 /\ ui' = 0 /\ pc' = "course"
    /\ UNCHANGED <<grades, no_commit, course_linked_programs, sink, failure,
                   invocation, first_events>>
    /\ UNCHANGED harness_vars

\* lines 185-188: the next completed course, its programs fetched and sorted
NextCourse ==
    /\ mode = "handle" /\ pc = "course"
    /\ ci <= Len(course_to_users_maps)
    /\ \/ Raise("CollaboratorError")
       \/ LET programs == sort_programs(get_programs(course_to_users_maps[ci][1])) IN
          /\ course_linked_programs' = programs
          /\ IF programs # <<>>
             THEN pc' = "user" /\ ui' = 1 /\ UNCHANGED ci
             ELSE ci' = ci + 1 /\ UNCHANGED <<pc, ui>>
          /\ UNCHANGED <<grades, no_commit, course_to_users_maps, email_sent_records,
                         sink, failure, invocation, first_events>>
          /\ UNCHANGED harness_vars

\* lines 189-205: one iteration of "for user in users"
ProcessUser ==
    /\ mode = "handle" /\ pc = "user"
    /\ LET completed_course_id == course_to_users_maps[ci][1]
           user == course_to_users_maps[ci][2][ui]
           result == get_course_run_to_suggest(
                         meter_progress(user, course_linked_programs), completed_course_id)
       IN \* meter.progress fails
          \/ Raise("CollaboratorError")
          \* line 192 unpacks three names from the tuple of two
          \/ Len(result) # 3 /\ Raise("ValueError")
          \* the enterprise lookup or segment.track fails
          \/ Len(result) = 3 /\ should_commit(no_commit) /\ Raise("CollaboratorError")
          \* a found course-run and course are non-empty dicts, so line 195 holds
          \/ /\ Len(result) = 3
             /\ LET suggested_program == get_program(course_linked_programs, result[1])
                    found == HasRun(suggested_program, completed_course_id)
                    completed_course_run == get_course_run(suggested_program, completed_course_id)
                    link == recommended_course_url(get_enterprise_learner_data_from_db(user),
                                                   result[2], result[3])
                IN IF should_commit(no_commit) /\ link = ValueError
                   THEN \* urljoin raises
                        Raise("ValueError")
                   ELSE IF should_commit(no_commit) /\ ~found
                   THEN \* completed_course_run is None; emit_event subscripts it
                        Raise("TypeError")
                   ELSE /\ sink' = IF should_commit(no_commit)
                                   THEN Append(sink, emit_event(user, suggested_program, result[2],
                                                                result[3], completed_course_run))
                                   ELSE sink
                        /\ email_sent_records' =
                              Append(email_sent_records,
                                     SentRecord(user, completed_course_id, result[2]))
                        /\ NextUser
                        /\ UNCHANGED <<grades, no_commit, course_to_users_maps,
                                       course_linked_programs, failure, invocation,
                                       first_events>>
                        /\ UNCHANGED harness_vars

\* lines 207-211: the loops are over, the summary is logged
Finish ==
    /\ mode = "handle" /\ pc = "course"
    /\ ci > Len(course_to_users_maps)
    /\ pc' = "done"
    /\ UNCHANGED <<grades, no_commit, course_to_users_maps, ci, ui,
                   course_linked_programs, email_sent_records, sink, failure,
                   invocation, first_events>>
    /\ UNCHANGED harness_vars

\* the operator runs the command again on the same day with the same options
InvokeAgain ==
    /\ mode = "handle" /\ pc = "done" /\ invocation = 1
    /\ invocation' = 2
    /\ first_events' = sink
    /\ pc' = "start" /\ ci' = 0 /\ ui' = 0
    /\ course_to_users_maps' = <<>> /\ course_linked_programs' = <<>>
    /\ email_sent_records' = <<>>
    /\ UNCHANGED <<grades, no_commit, sink, failure>>
    /\ UNCHANGED harness_vars

Next == HandleStart \/ NextCourse \/ ProcessUser \/ Finish \/ InvokeAgain

Spec == Init /\ [][Next]_vars

\* the selection harness and the command side by side
SpecAll == (InitSuggest \/ Init) /\ [][NextSuggest \/ Next]_vars

\* ------------------------------------------------------------------ claims

\* what section 3 of the specification calls eligible, field by field
EligibleRun(run, cid) ==
    /\ run.is_enrollable = TRUE
    /\ run.is_marketable = TRUE
    /\ run.marketing_url \notin {NoneText, <<>>}
    /\ run.image # {}
    /\ run.status = "published"
    /\ run.key # cid

\* the <<program, course, run>> index triples of a progress list
Positions(progress) ==
    UNION {UNION {{<<p, c, r>> : r \in 1..Len(progress[p].not_started[c].course_runs)} :
                  c \in 1..Len(progress[p].not_started)} : p \in 1..Len(progress)}

RunAt(progress, pos) == progress[pos[1]].not_started[pos[2]].course_runs[pos[3]]

\* iteration order: program, then course, then course-run
NotAfter(a, b) ==
    \/ a[1] < b[1]
    \/ a[1] = b[1] /\ a[2] < b[2]
    \/ a[1] = b[1] /\ a[2] = b[2] /\ a[3] <= b[3]

EligiblePositions(progress, cid) ==
    {pos \in Positions(progress) : EligibleRun(RunAt(progress, pos), cid)}

FirstEligible(progress, cid) ==
    CHOOSE a \in EligiblePositions(progress, cid) :
        \A b \in EligiblePositions(progress, cid) : NotAfter(a, b)

\* C1: get_course_run_to_suggest returns the first eligible course-run in
\* iteration order (programs in ranked order, then not-started courses, then
\* course-runs), together with its parent course and its program.
C1_FirstEligibleWins ==
    (mode = "suggest" /\ pc = "returned"
        /\ EligiblePositions(programs_progress, completed_id) # {}) =>
    LET a == FirstEligible(programs_progress, completed_id) IN
    /\ Len(suggest_out) = 3
    /\ suggest_out[1] = programs_progress[a[1]]
    /\ suggest_out[2] = RunAt(programs_progress, a)
    /\ suggest_out[3] = programs_progress[a[1]].not_started[a[2]]

\* the first program has course-runs but none eligible, the second program has
\* one, and the result is the second program
C1_Witness ==
    /\ mode = "suggest" /\ pc = "returned"
    /\ Len(programs_progress) = 2
    /\ \E pos \in Positions(programs_progress) : pos[1] = 1
    /\ \A pos \in EligiblePositions(programs_progress, completed_id) : pos[1] = 2
    /\ Len(suggest_out) = 3
    /\ suggest_out[1] = programs_progress[2]

Rank == [t \in SortTypes |->
           CASE t = "MicroMasters" -> 1
             [] t = "Professional Program" -> 2
             [] t = "Professional Certificate" -> 3
             [] t = "XSeries" -> 4
             [] t = "Masters" -> 5
             [] t = "MicroBachelors" -> 6
             [] OTHER -> 7]

\* where the program with this uuid stands in a list
IndexOf(programs, uuid) == CHOOSE i \in 1..Len(programs) : programs[i].uuid = uuid

\* C3: sort_programs returns a permutation of its input in non-decreasing
\* rank under the fixed table (unknown types rank 7, last), and programs of
\* equal rank keep their input order.
C3_StableRankSort ==
    (mode = "sort" /\ pc = "returned") =>
    /\ Len(sort_out) = Len(sort_in)
    /\ \A i \in 1..Len(sort_in) :
          \E j \in 1..Len(sort_out) :
             /\ sort_out[j].uuid = sort_in[i].uuid
             /\ sort_out[j].type = sort_in[i].type
             /\ sort_out[j].title = sort_in[i].title
             /\ sort_out[j].courses = sort_in[i].courses
    /\ \A j \in 1..(Len(sort_out) - 1) :
          Rank[sort_out[j].type] <= Rank[sort_out[j + 1].type]
    /\ \A i, j \in 1..Len(sort_in) :
          (i < j /\ Rank[sort_in[i].type] = Rank[sort_in[j].type]) =>
          IndexOf(sort_out, sort_in[i].uuid) < IndexOf(sort_out, sort_in[j].uuid)

\* a list not already in rank order, with two programs of one rank and an
\* unknown type, has been sorted
C3_Witness ==
    /\ mode = "sort" /\ pc = "returned"
    /\ \E i, j \in 1..Len(sort_in) :
          i < j /\ Rank[sort_in[i].type] > Rank[sort_in[j].type]
    /\ \E i, j \in 1..Len(sort_in) :
          i < j /\ sort_in[i].type = sort_in[j].type
    /\ \E i \in 1..Len(sort_in) : sort_in[i].type \notin KnownTypes

\* ---------------------------------------------------------- claims on handle

CurCourse == course_to_users_maps[ci][1]

CurUser == course_to_users_maps[ci][2][ui]

\* what the selection sees for one (completed course, user) pair
ProgressFor(course_id, user) ==
    meter_progress(user, sort_programs(get_programs(course_id)))

\* the (course index, user index) pairs of the mapping, in loop order
RECURSIVE PairsFrom(_)
PairsFrom(c) ==
    IF c > Len(course_to_users_maps) THEN <<>>
    ELSE [u \in 1..Len(course_to_users_maps[c][2]) |-> <<c, u>>] \o PairsFrom(c + 1)

\* the pairs whose loop iteration is over
Processed(q) == q[1] < ci \/ (q[1] = ci /\ q[2] < ui)

PairCourse(q) == course_to_users_maps[q[1]][1]

PairUser(q) == course_to_users_maps[q[1]][2][q[2]]

\* the processed pairs for which a suggestion exists
MatchedPairs ==
    SelectSeq(PairsFrom(1), LAMBDA q :
        /\ Processed(q)
        /\ EligiblePositions(ProgressFor(PairCourse(q), PairUser(q)), PairCourse(q)) # {})

ExpectedRecords ==
    [i \in 1..Len(MatchedPairs) |->
        LET q == MatchedPairs[i]
            pp == ProgressFor(PairCourse(q), PairUser(q))
        IN [user |-> PairUser(q).username,
            completed |-> PairCourse(q),
            suggested |-> RunAt(pp, FirstEligible(pp, PairCourse(q))).key]]

\* the segment.track calls of the current invocation
EventsOfInvocation == SubSeq(sink, Len(first_events) + 1, Len(sink))

CatalogRuns ==
    UNION {UNION {{Catalog[p].courses[c].course_runs[r] :
                     r \in 1..Len(Catalog[p].courses[c].course_runs)} :
                  c \in 1..Len(Catalog[p].courses)} : p \in 1..Len(Catalog)}

\* C2: a course-run returned by get_course_run_to_suggest is enrollable,
\* marketable, has a non-empty marketing URL, an image and status
\* "published", and its key is not the completed course id; no audit record
\* and no event of the command names a suggested run that is the completed one.
C2_SuggestedRunIsEligible ==
    /\ (mode = "suggest" /\ pc = "returned" /\ Len(suggest_out) = 3) =>
          EligibleRun(suggest_out[2], completed_id)
    /\ mode = "handle" =>
          /\ \A i \in 1..Len(email_sent_records) :
                /\ email_sent_records[i].suggested # email_sent_records[i].completed
                /\ \E run \in CatalogRuns :
                      /\ run.key = email_sent_records[i].suggested
                      /\ EligibleRun(run, email_sent_records[i].completed)
          /\ \A i \in 1..Len(sink) :
                sink[i].properties.COURSE_TWO_NAME # sink[i].properties.COURSE_ONE_NAME

\* a course-run was returned although an earlier one failed a check and
\* another earlier one carried the completed key
C2_Witness ==
    /\ mode = "suggest" /\ pc = "returned" /\ Len(suggest_out) = 3
    /\ \E a, b \in Positions(programs_progress) :
          /\ RunAt(programs_progress, a).key = completed_id
          /\ RunAt(programs_progress, b).status # "published"
          /\ \A e \in EligiblePositions(programs_progress, completed_id) :
                NotAfter(a, e) /\ NotAfter(b, e)

\* the user at hand has nothing to be suggested
NothingToSuggest ==
    /\ mode = "handle" /\ pc = "user"
    /\ EligiblePositions(ProgressFor(CurCourse, CurUser), CurCourse) = {}

\* C4: when no course-run is eligible for a user, handle treats that as a
\* normal outcome: unless a collaborator fails, the step emits nothing,
\* records nothing and the run goes on to the next user or course.
C4_NotFoundIsNormal ==
    [][(NothingToSuggest /\ failure' # "CollaboratorError") =>
          /\ pc' \in {"user", "course"}
          /\ failure' = None
          /\ sink' = sink
          /\ email_sent_records' = email_sent_records]_vars

\* C5: with --no-commit segment.track is never called, and the audit list
\* holds one record for every processed pair that has a suggestion.
C5_NoCommitSendsNothing ==
    (mode = "handle" /\ no_commit) =>
    /\ sink = <<>>
    /\ email_sent_records = ExpectedRecords

\* a dry run ended with two records
C5_Witness ==
    /\ mode = "handle" /\ no_commit /\ pc = "done"
    /\ Len(email_sent_records) = 2

\* C6: without --no-commit the events of the invocation and the audit
\* records pair off one to one, in order, each event for the user and the
\* suggested run of its record, and the records are those of the processed
\* pairs that have a suggestion.
C6_OneEventPerMatch ==
    (mode = "handle" /\ ~no_commit) =>
    /\ Len(EventsOfInvocation) = Len(email_sent_records)
    /\ \A i \in 1..Len(email_sent_records) :
          /\ i <= Len(EventsOfInvocation)
          /\ "user-" \o ToString(EventsOfInvocation[i].user_id) = email_sent_records[i].user
          /\ EventsOfInvocation[i].properties.COURSE_TWO_NAME
                = "Run " \o email_sent_records[i].suggested
    /\ email_sent_records = ExpectedRecords

\* a committing run ended with two events
C6_Witness ==
    /\ mode = "handle" /\ ~no_commit /\ pc = "done" /\ invocation = 1
    /\ Len(sink) = 2 /\ Len(email_sent_records) = 2

\* the portal base followed by /<slug>/course/<course key>
PortalLink(slug, course_key) ==
    ENTERPRISE_LEARNER_PORTAL_BASE_URL \o <<"/">> \o slug \o Text("/course/") \o course_key

StartsWith(text, prefix) ==
    Len(text) >= Len(prefix) /\ SubSeq(text, 1, Len(prefix)) = prefix

\* the marketing root joined with a marketing URL of the catalog: a URL under
\* the root is that URL, a path from the root stands behind the root, and a
\* path without a leading "/" behind the root and a "/"
RootJoined(marketing_url) ==
    IF StartsWith(marketing_url, MKTG_ROOT \o <<"/">>) THEN marketing_url
    ELSE IF marketing_url[1] = "/" THEN MKTG_ROOT \o marketing_url
    ELSE MKTG_ROOT \o <<"/">> \o marketing_url

\* what the step that has just sent an event had at hand: the enterprise
\* learner data of its user, the suggested course and course-run, and the
\* link of the event
SentLearnerData == get_enterprise_learner_data_from_db(CurUser)

SentPosition == FirstEligible(meter_progress(CurUser, course_linked_programs), CurCourse)

SentCourse ==
    meter_progress(CurUser, course_linked_programs)[SentPosition[1]].not_started[SentPosition[2]]

SentRun == RunAt(meter_progress(CurUser, course_linked_programs), SentPosition)

SentLink == sink'[Len(sink')].properties.COURSE_TWO_LINK

MarketingLink == RootJoined(SentRun.marketing_url)

PortalOfFirst(learner_data) ==
    IF learner_data # <<>> /\ learner_data[1].enterprise_customer.enable_learner_portal = TRUE
    THEN 1 ELSE 0

PortalOfAny(learner_data) ==
    IF \E i \in 1..Len(learner_data) :
          learner_data[i].enterprise_customer.enable_learner_portal = TRUE
    THEN CHOOSE i \in 1..Len(learner_data) :
            learner_data[i].enterprise_customer.enable_learner_portal = TRUE
    ELSE 0

\* C7 as amended: the link of an emitted event is the portal base followed by
\* /<customer slug>/course/<suggested course key> exactly when the FIRST
\* enterprise learner record of the user has a customer with the learner-portal
\* flag enabled; for every other user (no enterprise data, or the first
\* record's customer has the flag disabled, whatever a later record says) it is
\* the marketing root joined with the suggested run's marketing URL.
C7_PortalLinkOfFirstCustomer ==
    [][(mode = "handle" /\ Len(sink') = Len(sink) + 1) =>
          IF PortalOfFirst(SentLearnerData) # 0
          THEN /\ SentLink = PortalLink(SentLearnerData[1].enterprise_customer.slug,
                                        SentCourse.key)
               /\ SentLink # MarketingLink
          ELSE /\ SentLink = MarketingLink
               /\ \A i \in 1..Len(SentLearnerData) :
                     SentLink # PortalLink(SentLearnerData[i].enterprise_customer.slug,
                                           SentCourse.key)]_vars

\* C7 as stated: the portal base followed by /<slug>/course/<key> exactly when
\* the user has enterprise learner data whose customer has the learner-portal
\* flag enabled, the marketing link for every other user.
C7_PortalLinkOfAnyCustomer ==
    [][(mode = "handle" /\ Len(sink') = Len(sink) + 1) =>
          LET k == PortalOfAny(SentLearnerData) IN
          IF k # 0
          THEN SentLink = PortalLink(SentLearnerData[k].enterprise_customer.slug, SentCourse.key)
          ELSE SentLink = MarketingLink]_vars

\* events were sent to a user whose first customer has the portal (2) and to
\* one whose first customer has not but whose second has (3): the first holds
\* the portal link, the second does not
C7_Witness ==
    /\ mode = "handle"
    /\ \E i, j \in 1..Len(sink) :
          /\ sink[i].user_id = 2
          /\ TextOf(sink[i].properties.COURSE_TWO_LINK)
                = "https://portal.example.com/acme/course/CD"
          /\ sink[j].user_id = 3
          /\ TextOf(sink[j].properties.COURSE_TWO_LINK) = "https://www.example.com/course/B2"

\* how often a user stands in a list
Occurrences(users, user_id) == Cardinality({i \in 1..Len(users) : users[i].id = user_id})

MapBuilt == mode = "handle" /\ pc # "start"

C9_FailureAbortsRun ==
    [][/\ failure' # failure =>
             /\ pc' = "aborted"
             /\ sink' = sink /\ email_sent_records' = email_sent_records
             /\ ci' = ci /\ ui' = ui
       /\ pc = "aborted" => UNCHANGED vars]_vars

\* a collaborator failed while the second pair was processed, after the event
\* of the first pair was sent
C9_Witness ==
    /\ mode = "handle" /\ pc = "aborted" /\ failure = "CollaboratorError"
    /\ invocation = 1 /\ Len(sink) = 1
    /\ ci <= Len(course_to_users_maps)

\* C10: the command keeps no record of whom it nudged: run a second time on
\* the same day without --no-commit, it sends the events of the first run
\* once more.
C10_RerunSendsAgain ==
    (mode = "handle" /\ invocation = 2 /\ pc = "done" /\ ~no_commit) =>
    sink = first_events \o first_events

\* the second run is over and the first had sent two events
C10_Witness ==
    /\ mode = "handle" /\ invocation = 2 /\ pc = "done" /\ ~no_commit
    /\ Len(first_events) = 2

====
